---- MODULE Spec2Model ----
(***************************************************************************)
(* Bug reporter server: the authentication handlers (login,                *)
(* getCurrentUser, logout over an in-memory token blacklist), the user     *)
(* handlers (updateUser, toggleUserStatus, deleteUser, changePassword,     *)
(* resetUserPassword), the menu handlers (updateMenu, updateSubMenu,       *)
(* deleteMenu, deleteSubMenu) and the report handlers (createReport,       *)
(* updateReport, the bulk updates and the listings) over the relational    *)
(* store.  Every handler is one atomic action; the value it returns or     *)
(* the error it throws is kept in ret.                                     *)
(***************************************************************************)
EXTENDS Integers, FiniteSets, Sequences, TLC

VARIABLES
    users,          \* usersTable: id -> row (DOMAIN = ids that have a row)
    menus,          \* menusTable: id -> row
    subMenus,       \* subMenusTable: id -> row
    reports,        \* reportsTable: id -> row
    tokenBlacklist, \* auth.ts: the in-memory Set of revoked token strings
    issued,         \* token strings handed out by login (what clients hold)
    now,            \* the wall clock, in seconds
    ret,            \* the last handler call: [op, in, ok, err, out]
    calls           \* updateReport calls between two of their awaits

vars == <<users, menus, subMenus, reports, tokenBlacklist, issued, now, ret,
          calls>>

----------------------------------------------------------------------------
(* Bounds of the model *)

\* seconds the clock may move past 0 and past the token lifetime
MaxSkew == 1
\* number of distinct token strings login may hand out
MaxIssued == 2
\* number of updateReport calls that may be in flight together
MaxCalls == 2

----------------------------------------------------------------------------
(* Values *)

\* SQL NULL / JavaScript null (ids are >= 1, times are >= 0)
NULL == 0 - 1
\* A field of an input object is <<v>> when supplied and <<>> when absent
UNDEFINED == <<>>
Opt(S) == {UNDEFINED} \cup {<<v>> : v \in S}

JWT_SECRET == "fallback-secret-for-development"
TokenLifetime == 86400

UserIds == {1, 2, 3}
Usernames == {"alice", "bob", "carol"}
Passwords == {"pw1", "pw2"}
Salts == {"s1"}
Roles == {"user", "admin"}

----------------------------------------------------------------------------
(* auth.ts: password hashing *)

\* createHash('sha256').update(x).digest(): injective on the modelled inputs
Sha256(x) == [sha256 |-> x]

\* hashPassword with one salt for every call
hashPassword_fixedSalt(password, salt) ==
    <<"s1", Sha256(<<password, "s1">>)>>

\* `${salt}:${hash}` is kept as the sequence of its ':'-separated segments
hashPassword(password, salt) == <<salt, Sha256(<<password, salt>>)>>

verifyPassword(password, hashedPassword) ==
    LET salt == hashedPassword[1]
        computedHash == Sha256(<<password, salt>>)
    IN  /\ Len(hashedPassword) >= 2
        /\ hashedPassword[2] = computedHash

----------------------------------------------------------------------------
(* auth.ts: token codec.  A token string is the sequence of its            *)
(* '.'-separated segments.                                                 *)

Header == [alg |-> "HS256", typ |-> "JWT"]

Signature(headerB64, payloadB64, secret) ==
    Sha256(<<headerB64, payloadB64, secret>>)

generateToken(payload, t) ==
    LET tokenPayload == [userId |-> payload.userId,
                         username |-> payload.username,
                         role |-> payload.role,
                         iat |-> t,
                         exp |-> t + TokenLifetime]
    IN  <<Header, tokenPayload, Signature(Header, tokenPayload, JWT_SECRET)>>

Ok(v) == [ok |-> TRUE, err |-> "", out |-> v]
Err(msg) == [ok |-> FALSE, err |-> msg, out |-> NULL]

\* verifyToken refusing a token already in its last second
verifyToken_expiresAtExp(token, t) ==
    IF Len(token) # 3 THEN Err("Invalid token format")
    ELSE IF token[3] # Signature(token[1], token[2], JWT_SECRET)
         THEN Err("Invalid token signature")
    ELSE IF token[2].exp <= t THEN Err("Token expired")
    ELSE Ok([userId |-> token[2].userId,
             username |-> token[2].username,
             role |-> token[2].role])

\* verifyToken without the comparison of the signature
verifyToken_noSignatureCheck(token, t) ==
    IF Len(token) # 3 THEN Err("Invalid token format")
    ELSE IF token[2].exp < t THEN Err("Token expired")
    ELSE Ok([userId |-> token[2].userId,
             username |-> token[2].username,
             role |-> token[2].role])

verifyToken(token, t) ==
    IF Len(token) # 3 THEN Err("Invalid token format")
    ELSE IF token[3] # Signature(token[1], token[2], JWT_SECRET)
         THEN Err("Invalid token signature")
    ELSE IF token[2].exp < t THEN Err("Token expired")
    ELSE Ok([userId |-> token[2].userId,
             username |-> token[2].username,
             role |-> token[2].role])

\* strings a client may send that login never produced
ForgedPayload == [userId |-> 1, username |-> "alice", role |-> "admin",
                  iat |-> 0, exp |-> 4 * TokenLifetime]
MalformedToken == <<Header, ForgedPayload>>
ForgedToken == <<Header, ForgedPayload,
                 Signature(Header, ForgedPayload, "guessed-secret")>>
ForeignTokens == {MalformedToken, ForgedToken}

TokenStrings == issued \cup ForeignTokens

\* a payload segment with a character changed decodes to other claims
TamperedPayloads(payload) ==
    {[payload EXCEPT !.role = r] : r \in Roles \ {payload.role}}
        \cup {[payload EXCEPT !.exp = payload.exp + TokenLifetime]}

\* a signature segment with a character changed is another digest string
TamperedSignatures(token) ==
    {Signature(token[1], token[2], "guessed-secret"), Sha256(<<"garbled">>)}

\* an issued token with one character of its payload or signature segment
\* changed; a character changed to '.' splits the segment in two
Tampered(token) ==
    {<<token[1], q, token[3]>> : q \in TamperedPayloads(token[2])}
        \cup {<<token[1], token[2], sig>> : sig \in TamperedSignatures(token)}
        \cup {<<token[1], [left |-> token[2]], [right |-> token[2]], token[3]>>,
              <<token[1], token[2], [left |-> token[3]], [right |-> token[3]]>>}

TamperedTokens == UNION {Tampered(token) : token \in issued}

----------------------------------------------------------------------------
(* Rows *)

\* { password_hash, ...userWithoutPassword } = user
WithoutPassword(id, u) ==
    [id |-> id, username |-> u.username, role |-> u.role,
     is_active |-> u.is_active, last_login |-> u.last_login]

UsersByUsername(username) == {i \in DOMAIN users : users[i].username = username}

Remove(f, id) == [i \in (DOMAIN f) \ {id} |-> f[i]]

----------------------------------------------------------------------------
(* auth.ts: handlers *)

Returned(op, in, res) ==
    [op |-> op, in |-> in, ok |-> res.ok, err |-> res.err, out |-> res.out]

\* loginCheck with a message of its own for an unknown username
loginCheck_userNotFound(username, password) ==
    LET found == UsersByUsername(username)
    IN  IF found = {} THEN Err("User not found")
        ELSE LET id == CHOOSE i \in found : TRUE
             IN  IF ~users[id].is_active THEN Err("User account is inactive")
                 ELSE IF ~verifyPassword(password, users[id].password_hash)
                      THEN Err("Invalid username or password")
                 ELSE Ok(id)

\* what login throws before it writes anything, or Ok(id of the user)
loginCheck(username, password) ==
    LET found == UsersByUsername(username)
    IN  IF found = {} THEN Err("Invalid username or password")
        ELSE LET id == CHOOSE i \in found : TRUE
             IN  IF ~users[id].is_active THEN Err("User account is inactive")
                 ELSE IF ~verifyPassword(password, users[id].password_hash)
                      THEN Err("Invalid username or password")
                 ELSE Ok(id)

\* login recording the attempt before the credentials are checked
login_stampOnAttempt(username, password) ==
    LET chk == loginCheck(username, password)
        in == [username |-> username, password |-> password]
        found == UsersByUsername(username)
    IN  /\ ~chk.ok
        /\ users' = [i \in DOMAIN users |->
                       IF i \in found
                       THEN [users[i] EXCEPT !.last_login = now]
                       ELSE users[i]]
        /\ ret' = Returned("login", in, chk)
        /\ UNCHANGED <<menus, subMenus, reports, tokenBlacklist, issued, now,
                       calls>>

login(username, password) ==
    LET chk == loginCheck(username, password)
        in == [username |-> username, password |-> password]
    IN  IF ~chk.ok
        THEN /\ ret' = Returned("login", in, chk)
             /\ UNCHANGED <<users, menus, subMenus, reports, tokenBlacklist,
                            issued, now, calls>>
        ELSE LET id == chk.out
                 user == users[id]
                 token == generateToken([userId |-> id,
                                         username |-> user.username,
                                         role |-> user.role], now)
                 out == [user |-> [WithoutPassword(id, user)
                                     EXCEPT !.last_login = now],
                         token |-> token]
             IN  /\ Cardinality(issued \cup {token}) <= MaxIssued
                 /\ users' = [users EXCEPT ![id].last_login = now]
                 /\ issued' = issued \cup {token}
                 /\ ret' = Returned("login", in, Ok(out))
                 /\ UNCHANGED <<menus, subMenus, reports, tokenBlacklist, now,
                                calls>>

\* currentUser with the blacklist consulted after verifyToken
currentUser_verifyFirst(token) ==
    LET decoded == verifyToken(token, now)
    IN  IF ~decoded.ok THEN decoded
        ELSE IF token \in tokenBlacklist THEN Err("Token has been invalidated")
        ELSE IF decoded.out.userId \notin DOMAIN users
             THEN Err("User not found")
        ELSE IF ~users[decoded.out.userId].is_active
             THEN Err("User account is inactive")
        ELSE Ok(WithoutPassword(decoded.out.userId,
                                users[decoded.out.userId]))

\* currentUser without the is_active test
currentUser_noActiveCheck(token) ==
    IF token \in tokenBlacklist THEN Err("Token has been invalidated")
    ELSE LET decoded == verifyToken(token, now)
         IN  IF ~decoded.ok THEN decoded
             ELSE IF decoded.out.userId \notin DOMAIN users
                  THEN Err("User not found")
             ELSE Ok(WithoutPassword(decoded.out.userId,
                                     users[decoded.out.userId]))

\* currentUser with the expiry of the token tested before the blacklist
currentUser_expiredBeforeRevoked(token) ==
    LET decoded == verifyToken(token, now)
    IN  IF decoded.err = "Token expired" THEN decoded
        ELSE IF token \in tokenBlacklist
             THEN Err("Token has been invalidated")
        ELSE IF ~decoded.ok THEN decoded
        ELSE IF decoded.out.userId \notin DOMAIN users
             THEN Err("User not found")
        ELSE IF ~users[decoded.out.userId].is_active
             THEN Err("User account is inactive")
        ELSE Ok(WithoutPassword(decoded.out.userId,
                                users[decoded.out.userId]))

\* the value getCurrentUser returns or the error it throws
currentUser(token) ==
    IF token \in tokenBlacklist THEN Err("Token has been invalidated")
    ELSE LET decoded == verifyToken(token, now)
         IN  IF ~decoded.ok THEN decoded
             ELSE IF decoded.out.userId \notin DOMAIN users
                  THEN Err("User not found")
             ELSE IF ~users[decoded.out.userId].is_active
                  THEN Err("User account is inactive")
             ELSE Ok(WithoutPassword(decoded.out.userId,
                                     users[decoded.out.userId]))

getCurrentUser(token) ==
    /\ ret' = Returned("getCurrentUser", token, currentUser(token))
    /\ UNCHANGED <<users, menus, subMenus, reports, tokenBlacklist, issued,
                   now, calls>>

\* blacklistAfterLogout with the add moved out of the try block
blacklistAfterLogout_always(token) == tokenBlacklist \cup {token}

\* the blacklist logout leaves behind
blacklistAfterLogout(token) ==
    IF verifyToken(token, now).ok THEN tokenBlacklist \cup {token}
    ELSE tokenBlacklist

\* logoutResult with the catch block rethrowing
logoutResult_rethrow(token) ==
    IF verifyToken(token, now).ok THEN Ok([success |-> TRUE])
    ELSE verifyToken(token, now)

\* the catch block swallows every error of verifyToken
logoutResult(token) == Ok([success |-> TRUE])

logout(token) ==
    /\ tokenBlacklist' = blacklistAfterLogout(token)
    /\ ret' = Returned("logout", token, logoutResult(token))
    /\ UNCHANGED <<users, menus, subMenus, reports, issued, now, calls>>

----------------------------------------------------------------------------
(* users.ts: handlers that change what a token resolves to *)

\* the unique index on users.username
UsernameTaken(id, username) ==
    \E i \in DOMAIN users : i # id /\ users[i].username = username

updateUser(input) ==
    LET id == input.id
        row == [users[id] EXCEPT
                  !.username = IF input.username # UNDEFINED
                               THEN input.username[1] ELSE @,
                  !.role = IF input.role # UNDEFINED THEN input.role[1] ELSE @,
                  !.is_active = IF input.is_active # UNDEFINED
                                THEN input.is_active[1] ELSE @]
    IN  IF id \notin DOMAIN users
        THEN /\ ret' = Returned("updateUser", input, Err("User not found"))
             /\ UNCHANGED <<users, menus, subMenus, reports, tokenBlacklist,
                            issued, now, calls>>
        ELSE IF input.username # UNDEFINED
                /\ UsernameTaken(id, input.username[1])
        THEN /\ ret' = Returned("updateUser", input,
                                Err("unique constraint violation"))
             /\ UNCHANGED <<users, menus, subMenus, reports, tokenBlacklist,
                            issued, now, calls>>
        ELSE /\ users' = [users EXCEPT ![id] = row]
             /\ ret' = Returned("updateUser", input,
                                Ok([id |-> id] @@ row))
             /\ UNCHANGED <<menus, subMenus, reports, tokenBlacklist, issued,
                            now, calls>>

toggleUserStatus(id) ==
    IF id \notin DOMAIN users
    THEN /\ ret' = Returned("toggleUserStatus", id, Err("User not found"))
         /\ UNCHANGED <<users, menus, subMenus, reports, tokenBlacklist,
                        issued, now, calls>>
    ELSE LET row == [users[id] EXCEPT !.is_active = ~users[id].is_active]
         IN  /\ users' = [users EXCEPT ![id] = row]
             /\ ret' = Returned("toggleUserStatus", id, Ok([id |-> id] @@ row))
             /\ UNCHANGED <<menus, subMenus, reports, tokenBlacklist, issued,
                            now, calls>>

\* Bun.password.hash: an argon2id string, which holds no ':' and so is a
\* single ':'-segment; the salt is drawn by the runtime
BunSalts == {"s2"}
Argon2(x) == [argon2 |-> x]
bunPasswordHash(password, salt) ==
    LET encoded == [alg |-> "argon2id", salt |-> salt,
                    digest |-> Argon2(<<password, salt>>)]
    IN  <<encoded>>

\* Bun.password.verify: rejects a string that names no supported algorithm
bunPasswordVerify(password, hash) ==
    IF Len(hash) # 1 THEN Err("UnsupportedAlgorithm")
    ELSE Ok(hash[1].digest = Argon2(<<password, hash[1].salt>>))

\* Math.random().toString(36).slice(-12)
TemporaryPasswords == {"tmp"}

changePassword(input) ==
    LET in == input
        id == input.user_id
        fail(res) == /\ ret' = Returned("changePassword", in, res)
                     /\ UNCHANGED <<users, menus, subMenus, reports,
                                    tokenBlacklist, issued, now,
                                    calls>>
    IN  IF id \notin DOMAIN users THEN fail(Err("User not found"))
        ELSE LET valid == bunPasswordVerify(input.current_password,
                                            users[id].password_hash)
             IN  IF ~valid.ok THEN fail(valid)
                 ELSE IF ~valid.out
                      THEN fail(Err("Current password is incorrect"))
                 ELSE \E salt \in BunSalts :
                        /\ users' = [users EXCEPT ![id].password_hash =
                                       bunPasswordHash(input.new_password,
                                                       salt)]
                        /\ ret' = Returned("changePassword", in,
                                           Ok([success |-> TRUE]))
                        /\ UNCHANGED <<menus, subMenus, reports,
                                       tokenBlacklist, issued, now,
                                       calls>>

resetUserPassword(id) ==
    IF id \notin DOMAIN users
    THEN /\ ret' = Returned("resetUserPassword", id, Err("User not found"))
         /\ UNCHANGED <<users, menus, subMenus, reports, tokenBlacklist,
                        issued, now, calls>>
    ELSE \E temporaryPassword \in TemporaryPasswords, salt \in BunSalts :
           /\ users' = [users EXCEPT ![id].password_hash =
                          bunPasswordHash(temporaryPassword, salt)]
           /\ ret' = Returned("resetUserPassword", id,
                              Ok([success |-> TRUE,
                                  temporaryPassword |-> temporaryPassword]))
           /\ UNCHANGED <<menus, subMenus, reports, tokenBlacklist, issued,
                          now, calls>>

\* createUser returns the inserted row as the database returns it; users.id
\* is a serial, which is the number of rows plus one while no row is deleted
createUser(input) ==
    IF UsernameTaken(NULL, input.username)
    THEN /\ ret' = Returned("createUser", input,
                            Err("unique constraint violation"))
         /\ UNCHANGED <<users, menus, subMenus, reports, tokenBlacklist,
                        issued, now, calls>>
    ELSE \E salt \in BunSalts :
           LET id == 1 + Cardinality(DOMAIN users)
               row == [username |-> input.username,
                       password_hash |-> bunPasswordHash(input.password,
                                                         salt),
                       role |-> input.role, is_active |-> TRUE,
                       last_login |-> NULL]
           IN  /\ id \in UserIds
               /\ users' = (id :> row) @@ users
               /\ ret' = Returned("createUser", input, Ok([id |-> id] @@ row))
               /\ UNCHANGED <<menus, subMenus, reports, tokenBlacklist,
                              issued, now, calls>>

\* values of randomBytes(16).toString('hex')
RandomSalts == {"s1", "s2", "s3"}

\* the salts of the stored hashes; randomBytes does not return a value again
DrawnSalts == {users[i].password_hash[1] : i \in DOMAIN users}

\* the fixture of the auth tests: a row inserted with hashPassword(password)
insertUser(input) ==
    IF UsernameTaken(NULL, input.username)
    THEN /\ ret' = Returned("insertUser", input,
                            Err("unique constraint violation"))
         /\ UNCHANGED <<users, menus, subMenus, reports, tokenBlacklist,
                        issued, now, calls>>
    ELSE \E salt \in RandomSalts \ DrawnSalts :
           LET id == 1 + Cardinality(DOMAIN users)
               row == [username |-> input.username,
                       password_hash |-> hashPassword(input.password, salt),
                       role |-> input.role, is_active |-> TRUE,
                       last_login |-> NULL]
           IN  /\ id \in UserIds
               /\ users' = (id :> row) @@ users
               /\ ret' = Returned("insertUser", input, Ok([id |-> id] @@ row))
               /\ UNCHANGED <<menus, subMenus, reports, tokenBlacklist,
                              issued, now, calls>>

\* the selected columns of the users with an id in ids, newest first
RECURSIVE UserRows(_)
UserRows(ids) ==
    IF ids = {} THEN <<>>
    ELSE LET m == CHOOSE x \in ids : \A y \in ids : x >= y
         IN  <<WithoutPassword(m, users[m])>> \o UserRows(ids \ {m})

\* Math.ceil(total / per_page)
Ceil(total, per_page) == (total + per_page - 1) \div per_page

getUsers(filters) ==
    LET page == IF filters.page # UNDEFINED THEN filters.page[1] ELSE 1
        per_page == IF filters.per_page # UNDEFINED THEN filters.per_page[1]
                    ELSE 10
        offset == (page - 1) * per_page
        matching == {i \in DOMAIN users :
                       /\ filters.role # UNDEFINED
                              => users[i].role = filters.role[1]
                       /\ filters.is_active # UNDEFINED
                              => users[i].is_active = filters.is_active[1]}
        rows == UserRows(matching)
        total == Cardinality(matching)
        last == IF offset + per_page < Len(rows) THEN offset + per_page
                ELSE Len(rows)
    IN  /\ ret' = Returned("getUsers", filters,
                           Ok([data |-> SubSeq(rows, offset + 1, last),
                               pagination |->
                                   [total |-> total, page |-> page,
                                    per_page |-> per_page,
                                    total_pages |-> Ceil(total, per_page)]]))
        /\ UNCHANGED <<users, menus, subMenus, reports, tokenBlacklist,
                       issued, now, calls>>

getUserById(id) ==
    /\ ret' = Returned("getUserById", id,
                       IF id \in DOMAIN users
                       THEN Ok(WithoutPassword(id, users[id]))
                       ELSE Ok(NULL))
    /\ UNCHANGED <<users, menus, subMenus, reports, tokenBlacklist, issued,
                   now, calls>>

\* reports.user_id is ON DELETE CASCADE, reports.assigned_to ON DELETE SET NULL
deleteUser(id) ==
    /\ users' = Remove(users, id)
    /\ reports' = [r \in {x \in DOMAIN reports : reports[x].user_id # id} |->
                     [reports[r] EXCEPT !.assigned_to =
                                          IF @ = id THEN NULL ELSE @]]
    /\ ret' = Returned("deleteUser", id, Ok([success |-> TRUE]))
    /\ UNCHANGED <<menus, subMenus, tokenBlacklist, issued, now, calls>>

----------------------------------------------------------------------------------------------------------------------------------------
(* menus.ts: handlers *)

updateMenu(input) ==
    IF input.id \notin DOMAIN menus
    THEN /\ ret' = Returned("updateMenu", input, Err("Menu not found"))
         /\ UNCHANGED <<users, menus, subMenus, reports, tokenBlacklist,
                        issued, now, calls>>
    ELSE LET row == [menus[input.id] EXCEPT
                       !.is_active = IF input.is_active # UNDEFINED
                                     THEN input.is_active[1] ELSE @]
         IN  /\ menus' = [menus EXCEPT ![input.id] = row]
             /\ ret' = Returned("updateMenu", input, Ok([id |-> input.id] @@ row))
             /\ UNCHANGED <<users, subMenus, reports, tokenBlacklist, issued,
                            now, calls>>

updateSubMenu(input) ==
    IF input.menu_id # UNDEFINED /\ input.menu_id[1] \notin DOMAIN menus
    THEN /\ ret' = Returned("updateSubMenu", input,
                            Err("Parent menu not found"))
         /\ UNCHANGED <<users, menus, subMenus, reports, tokenBlacklist,
                        issued, now, calls>>
    ELSE IF input.id \notin DOMAIN subMenus
    THEN /\ ret' = Returned("updateSubMenu", input, Err("Sub-menu not found"))
         /\ UNCHANGED <<users, menus, subMenus, reports, tokenBlacklist,
                        issued, now, calls>>
    ELSE LET row == [subMenus[input.id] EXCEPT
                       !.menu_id = IF input.menu_id # UNDEFINED
                                   THEN input.menu_id[1] ELSE @,
                       !.is_active = IF input.is_active # UNDEFINED
                                     THEN input.is_active[1] ELSE @]
         IN  /\ subMenus' = [subMenus EXCEPT ![input.id] = row]
             /\ ret' = Returned("updateSubMenu", input,
                                Ok([id |-> input.id] @@ row))
             /\ UNCHANGED <<users, menus, reports, tokenBlacklist, issued, now,
                            calls>>

\* the rows of reports that hold menu id / sub-menu id as a foreign key
ReportsOfMenu(id) == {r \in DOMAIN reports : reports[r].menu_id = id}
ReportsOfSubMenu(id) == {r \in DOMAIN reports : reports[r].sub_menu_id = id}

\* deleteMenu without the look at the reports table
deleteMenu_noReportsCheck(id) ==
    /\ menus' = Remove(menus, id)
    /\ subMenus' = [x \in {y \in DOMAIN subMenus : subMenus[y].menu_id # id}
                      |-> subMenus[x]]
    /\ ret' = Returned("deleteMenu", id,
                       Ok([success |-> id \in DOMAIN menus]))
    /\ UNCHANGED <<users, reports, tokenBlacklist, issued, now, calls>>

\* sub_menus.menu_id is ON DELETE CASCADE and reports.sub_menu_id is ON
\* DELETE RESTRICT: the delete of a menu takes its sub-menus with it, and the
\* database refuses the whole statement when a report holds one of them
deleteMenu(id) ==
    LET cascaded == {x \in DOMAIN subMenus : subMenus[x].menu_id = id}
    IN  IF ReportsOfMenu(id) # {}
        THEN /\ ret' = Returned("deleteMenu", id,
                          Err("Cannot delete menu that has associated reports"))
             /\ UNCHANGED <<users, menus, subMenus, reports, tokenBlacklist,
                            issued, now, calls>>
        ELSE IF id \in DOMAIN menus
                /\ \E x \in cascaded : ReportsOfSubMenu(x) # {}
        THEN /\ ret' = Returned("deleteMenu", id,
                                Err("foreign key constraint violation"))
             /\ UNCHANGED <<users, menus, subMenus, reports, tokenBlacklist,
                            issued, now, calls>>
        ELSE /\ menus' = Remove(menus, id)
             /\ subMenus' = [x \in (DOMAIN subMenus) \ cascaded |-> subMenus[x]]
             /\ ret' = Returned("deleteMenu", id,
                                Ok([success |-> id \in DOMAIN menus]))
             /\ UNCHANGED <<users, reports, tokenBlacklist, issued, now,
                            calls>>

deleteSubMenu(id) ==
    IF ReportsOfSubMenu(id) # {}
    THEN /\ ret' = Returned("deleteSubMenu", id,
                     Err("Cannot delete sub-menu that has associated reports"))
         /\ UNCHANGED <<users, menus, subMenus, reports, tokenBlacklist,
                        issued, now, calls>>
    ELSE /\ subMenus' = Remove(subMenus, id)
         /\ ret' = Returned("deleteSubMenu", id,
                            Ok([success |-> id \in DOMAIN subMenus]))
         /\ UNCHANGED <<users, menus, reports, tokenBlacklist, issued, now,
                        calls>>

----------------------------------------------------------------------------
(* reports.ts: handlers *)

ActiveMenu(id) == id \in DOMAIN menus /\ menus[id].is_active
ActiveSubMenu(id) == id \in DOMAIN subMenus /\ subMenus[id].is_active
ActiveUser(id) == id \in DOMAIN users /\ users[id].is_active

\* updateReportCheck comparing the sub-menu with the stored menu only
updateReportCheck_storedMenuOnly(existing, input) ==
    IF input.menu_id # UNDEFINED /\ ~ActiveMenu(input.menu_id[1])
    THEN Err("Invalid menu selected")
    ELSE IF input.sub_menu_id # UNDEFINED
            /\ ~ActiveSubMenu(input.sub_menu_id[1])
    THEN Err("Invalid sub menu selected")
    ELSE IF input.sub_menu_id # UNDEFINED
            /\ subMenus[input.sub_menu_id[1]].menu_id # existing.menu_id
    THEN Err("Sub menu does not belong to the selected menu")
    ELSE IF input.assigned_to # UNDEFINED /\ input.assigned_to[1] # NULL
            /\ ~ActiveUser(input.assigned_to[1])
    THEN Err("Invalid assigned user")
    ELSE Ok(NULL)

\* updateReportCheck accepting any assignee that has a row
updateReportCheck_anyAssignee(existing, input) ==
    IF input.menu_id # UNDEFINED /\ ~ActiveMenu(input.menu_id[1])
    THEN Err("Invalid menu selected")
    ELSE IF input.sub_menu_id # UNDEFINED
            /\ ~ActiveSubMenu(input.sub_menu_id[1])
    THEN Err("Invalid sub menu selected")
    ELSE IF input.sub_menu_id # UNDEFINED
            /\ LET menuIdToCheck == IF input.menu_id # UNDEFINED
                                    THEN input.menu_id[1]
                                    ELSE existing.menu_id
               IN  subMenus[input.sub_menu_id[1]].menu_id # menuIdToCheck
    THEN Err("Sub menu does not belong to the selected menu")
    ELSE IF input.assigned_to # UNDEFINED /\ input.assigned_to[1] # NULL
            /\ input.assigned_to[1] \notin DOMAIN users
    THEN Err("Invalid assigned user")
    ELSE Ok(NULL)

\* the error updateReport throws, or Ok when every validation passes;
\* existing is the row read at the start of the call
updateReportCheck(existing, input) ==
    IF input.menu_id # UNDEFINED /\ ~ActiveMenu(input.menu_id[1])
    THEN Err("Invalid menu selected")
    ELSE IF input.sub_menu_id # UNDEFINED
            /\ ~ActiveSubMenu(input.sub_menu_id[1])
    THEN Err("Invalid sub menu selected")
    ELSE IF input.sub_menu_id # UNDEFINED
            /\ LET menuIdToCheck == IF input.menu_id # UNDEFINED
                                    THEN input.menu_id[1]
                                    ELSE existing.menu_id
               IN  subMenus[input.sub_menu_id[1]].menu_id # menuIdToCheck
    THEN Err("Sub menu does not belong to the selected menu")
    ELSE IF input.assigned_to # UNDEFINED /\ input.assigned_to[1] # NULL
            /\ ~ActiveUser(input.assigned_to[1])
    THEN Err("Invalid assigned user")
    ELSE Ok(NULL)

\* updateDataResolvedAt without the branch that clears resolved_at
updateDataResolvedAt_noClear(existing, input) ==
    IF input.status = UNDEFINED THEN UNDEFINED
    ELSE IF input.status[1] = "resolved" THEN <<now>>
    ELSE UNDEFINED

\* resolved_at as updateData carries it: <<v>> when set, UNDEFINED when not
updateDataResolvedAt(existing, input) ==
    IF input.status = UNDEFINED THEN UNDEFINED
    ELSE IF input.status[1] = "resolved" THEN <<now>>
    ELSE IF existing.status = "resolved" THEN <<NULL>>
    ELSE UNDEFINED

\* applyUpdateData writing the column default for an omitted priority
applyUpdateData_defaultPriority(cur, existing, input) ==
    LET Set(supplied, old) == IF supplied # UNDEFINED THEN supplied[1] ELSE old
    IN  [user_id |-> cur.user_id,
         created_at |-> cur.created_at,
         menu_id |-> Set(input.menu_id, cur.menu_id),
         sub_menu_id |-> Set(input.sub_menu_id, cur.sub_menu_id),
         name |-> Set(input.name, cur.name),
         status |-> Set(input.status, cur.status),
         priority |-> Set(input.priority, "medium"),
         assigned_to |-> Set(input.assigned_to, cur.assigned_to),
         updated_at |-> now,
         resolved_at |-> Set(updateDataResolvedAt(existing, input),
                             cur.resolved_at)]

\* UPDATE reports SET updateData WHERE id = input.id, applied to row cur
applyUpdateData(cur, existing, input) ==
    LET Set(supplied, old) == IF supplied # UNDEFINED THEN supplied[1] ELSE old
    IN  [user_id |-> cur.user_id,
         created_at |-> cur.created_at,
         menu_id |-> Set(input.menu_id, cur.menu_id),
         sub_menu_id |-> Set(input.sub_menu_id, cur.sub_menu_id),
         name |-> Set(input.name, cur.name),
         status |-> Set(input.status, cur.status),
         priority |-> Set(input.priority, cur.priority),
         assigned_to |-> Set(input.assigned_to, cur.assigned_to),
         updated_at |-> now,
         resolved_at |-> Set(updateDataResolvedAt(existing, input),
                             cur.resolved_at)]

\* updateReport validating the menu before it looks the report up
updateReport_menuFirst(input) ==
    IF input.menu_id # UNDEFINED /\ ~ActiveMenu(input.menu_id[1])
    THEN /\ ret' = Returned("updateReport", input,
                            Err("Invalid menu selected"))
         /\ UNCHANGED <<users, menus, subMenus, reports, tokenBlacklist,
                        issued, now, calls>>
    ELSE IF input.id \notin DOMAIN reports
    THEN /\ ret' = Returned("updateReport", input, Err("Report not found"))
         /\ UNCHANGED <<users, menus, subMenus, reports, tokenBlacklist,
                        issued, now, calls>>
    ELSE LET existing == reports[input.id]
             chk == updateReportCheck(existing, input)
             row == applyUpdateData(reports[input.id], existing, input)
         IN  IF ~chk.ok
             THEN /\ ret' = Returned("updateReport", input, chk)
                  /\ UNCHANGED <<users, menus, subMenus, reports,
                                 tokenBlacklist, issued, now, calls>>
             ELSE /\ reports' = [reports EXCEPT ![input.id] = row]
                  /\ ret' = Returned("updateReport", input,
                                     Ok([id |-> input.id] @@ row))
                  /\ UNCHANGED <<users, menus, subMenus, tokenBlacklist,
                                 issued, now, calls>>

\* updateReport storing updated_at before it validates the references
updateReport_stampFirst(input) ==
    IF input.id \notin DOMAIN reports
    THEN /\ ret' = Returned("updateReport", input, Err("Report not found"))
         /\ UNCHANGED <<users, menus, subMenus, reports, tokenBlacklist,
                        issued, now, calls>>
    ELSE LET existing == reports[input.id]
             chk == updateReportCheck(existing, input)
             row == applyUpdateData(reports[input.id], existing, input)
         IN  IF ~chk.ok
             THEN /\ reports' = [reports EXCEPT ![input.id].updated_at = now]
                  /\ ret' = Returned("updateReport", input, chk)
                  /\ UNCHANGED <<users, menus, subMenus, tokenBlacklist,
                                 issued, now, calls>>
             ELSE /\ reports' = [reports EXCEPT ![input.id] = row]
                  /\ ret' = Returned("updateReport", input,
                                     Ok([id |-> input.id] @@ row))
                  /\ UNCHANGED <<users, menus, subMenus, tokenBlacklist,
                                 issued, now, calls>>

updateReport(input) ==
    IF input.id \notin DOMAIN reports
    THEN /\ ret' = Returned("updateReport", input, Err("Report not found"))
         /\ UNCHANGED <<users, menus, subMenus, reports, tokenBlacklist,
                        issued, now, calls>>
    ELSE LET existing == reports[input.id]
             chk == updateReportCheck(existing, input)
             row == applyUpdateData(reports[input.id], existing, input)
         IN  IF ~chk.ok
             THEN /\ ret' = Returned("updateReport", input, chk)
                  /\ UNCHANGED <<users, menus, subMenus, reports,
                                 tokenBlacklist, issued, now, calls>>
             ELSE /\ reports' = [reports EXCEPT ![input.id] = row]
                  /\ ret' = Returned("updateReport", input,
                                     Ok([id |-> input.id] @@ row))
                  /\ UNCHANGED <<users, menus, subMenus, tokenBlacklist,
                                 issued, now, calls>>

\* updateReport as the event loop runs it.  Every await of a query lets other
\* requests run, so a call is three steps: the read of the existing row, the
\* validation lookups that build updateData, and the UPDATE.  A call between
\* two steps is [input, existing, pc] in calls.
updateReportRead(input) ==
    IF input.id \notin DOMAIN reports
    THEN /\ ret' = Returned("updateReport", input, Err("Report not found"))
         /\ UNCHANGED <<users, menus, subMenus, reports, tokenBlacklist,
                        issued, now, calls>>
    ELSE /\ Cardinality(calls) < MaxCalls
         /\ calls' = calls \cup {[input |-> input,
                                  existing |-> reports[input.id],
                                  pc |-> "validate"]}
         /\ UNCHANGED <<users, menus, subMenus, reports, tokenBlacklist,
                        issued, now, ret>>

updateReportValidate(call) ==
    LET chk == updateReportCheck(call.existing, call.input)
    IN  /\ call.pc = "validate"
        /\ IF ~chk.ok
           THEN /\ calls' = calls \ {call}
                /\ ret' = Returned("updateReport", call.input, chk)
           ELSE /\ calls' = (calls \ {call}) \cup {[call EXCEPT !.pc = "write"]}
                /\ UNCHANGED ret
        /\ UNCHANGED <<users, menus, subMenus, reports, tokenBlacklist,
                       issued, now>>

updateReportWrite(call) ==
    LET id == call.input.id
        row == applyUpdateData(reports[id], call.existing, call.input)
    IN  /\ call.pc = "write"
        /\ reports' = [reports EXCEPT ![id] = row]
        /\ calls' = calls \ {call}
        /\ ret' = Returned("updateReport", call.input, Ok([id |-> id] @@ row))
        /\ UNCHANGED <<users, menus, subMenus, tokenBlacklist, issued, now>>

\* reports.update as the router exposes it: a public procedure whose
\* context is empty, called by the client of user actor; the handler is
\* handed the input alone
reportsUpdate(actor, input) ==
    LET in == [actor |-> actor, input |-> input]
    IN  IF input.id \notin DOMAIN reports
        THEN /\ ret' = Returned("reports.update", in, Err("Report not found"))
             /\ UNCHANGED <<users, menus, subMenus, reports, tokenBlacklist,
                            issued, now, calls>>
        ELSE LET existing == reports[input.id]
                 chk == updateReportCheck(existing, input)
                 row == applyUpdateData(reports[input.id], existing, input)
             IN  IF ~chk.ok
                 THEN /\ ret' = Returned("reports.update", in, chk)
                      /\ UNCHANGED <<users, menus, subMenus, reports,
                                     tokenBlacklist, issued, now,
                                     calls>>
                 ELSE /\ reports' = [reports EXCEPT ![input.id] = row]
                      /\ ret' = Returned("reports.update", in,
                                         Ok([id |-> input.id] @@ row))
                      /\ UNCHANGED <<users, menus, subMenus, tokenBlacklist,
                                     issued, now, calls>>

\* createReport is a placeholder: it writes no row and answers with id 1
createReport(input) ==
    /\ ret' = Returned("createReport", input,
                       Ok([id |-> 1,
                           user_id |-> input.user_id,
                           menu_id |-> input.menu_id,
                           sub_menu_id |-> input.sub_menu_id,
                           name |-> input.name,
                           status |-> "pending",
                           priority |-> "medium",
                           assigned_to |-> NULL,
                           created_at |-> now,
                           updated_at |-> now,
                           resolved_at |-> NULL]))
    /\ UNCHANGED <<users, menus, subMenus, reports, tokenBlacklist, issued,
                   now, calls>>

\* bulkUpdateReportStatus is a placeholder: it writes no row
bulkUpdateReportStatus(input) ==
    /\ ret' = Returned("bulkUpdateReportStatus", input,
                       Ok([success |-> TRUE,
                           updated |-> Len(input.report_ids)]))
    /\ UNCHANGED <<users, menus, subMenus, reports, tokenBlacklist, issued,
                   now, calls>>

\* bulkAssignReports is a placeholder: it writes no row
bulkAssignReports(input) ==
    /\ ret' = Returned("bulkAssignReports", input,
                       Ok([success |-> TRUE,
                           assigned |-> Len(input.report_ids)]))
    /\ UNCHANGED <<users, menus, subMenus, reports, tokenBlacklist, issued,
                   now, calls>>

\* the rows of reportsTable with an id in ids, by ascending id
RECURSIVE RowsOf(_)
RowsOf(ids) ==
    IF ids = {} THEN <<>>
    ELSE LET m == CHOOSE x \in ids : \A y \in ids : x <= y
         IN  <<[id |-> m] @@ reports[m]>> \o RowsOf(ids \ {m})

\* getReportsData as a query that applies the filters as given
getReportsData_filtersOnly(filters) ==
    RowsOf({r \in DOMAIN reports :
              filters.user_id # UNDEFINED
                  => reports[r].user_id = filters.user_id[1]})

\* getReports and getUserReports are placeholders: they read no table
getReportsData(filters) == <<>>
getUserReportsData(userId, filters) == <<>>

Pagination(filters) ==
    [total |-> 0,
     page |-> IF filters.page # UNDEFINED THEN filters.page[1] ELSE 1,
     per_page |-> IF filters.per_page # UNDEFINED THEN filters.per_page[1]
                  ELSE 10,
     total_pages |-> 0]

\* reports.getAll, called by the client of user actor
getReports(actor, filters) ==
    /\ ret' = Returned("getReports", [actor |-> actor, filters |-> filters],
                       Ok([data |-> getReportsData(filters),
                           pagination |-> Pagination(filters)]))
    /\ UNCHANGED <<users, menus, subMenus, reports, tokenBlacklist, issued,
                   now, calls>>

\* reports.getUserReports, called by the client of user actor
getUserReports(actor, userId, filters) ==
    /\ ret' = Returned("getUserReports",
                       [actor |-> actor, userId |-> userId,
                        filters |-> filters],
                       Ok([data |-> getUserReportsData(userId, filters),
                           pagination |-> Pagination(filters)]))
    /\ UNCHANGED <<users, menus, subMenus, reports, tokenBlacklist, issued,
                   now, calls>>

----------------------------------------------------------------------------------------------------------------------------------------
(* The clock *)

Ticked == [op |-> "tick", in |-> NULL, ok |-> TRUE, err |-> "", out |-> NULL]

\* Date.now() moves by a second, near the start of a token lifetime
TickSecond ==
    /\ now % TokenLifetime < MaxSkew
    /\ now' = now + 1
    /\ ret' = Ticked
    /\ UNCHANGED <<users, menus, subMenus, reports, tokenBlacklist, issued,
                   calls>>

\* Date.now() moves by a whole token lifetime
TickDay ==
    /\ now < TokenLifetime
    /\ now' = now + TokenLifetime
    /\ ret' = Ticked
    /\ UNCHANGED <<users, menus, subMenus, reports, tokenBlacklist, issued,
                   calls>>

----------------------------------------------------------------------------
(* The store as the test fixtures seed it *)

MenuIds == {1, 2, 3}
SubMenuIds == {1, 2, 3}
ReportIds == {1, 2, 3}
Statuses == {"pending", "progress", "resolved", "closed"}

SeedUser(username, password, role) ==
    [username |-> username,
     password_hash |-> hashPassword(password, "s1"),
     role |-> role, is_active |-> TRUE, last_login |-> NULL]

SeedReport(user_id, menu_id, sub_menu_id) ==
    [user_id |-> user_id, menu_id |-> menu_id, sub_menu_id |-> sub_menu_id,
     name |-> "n1", status |-> "pending", priority |-> "medium",
     assigned_to |-> NULL, created_at |-> 0, updated_at |-> 0,
     resolved_at |-> NULL]

Init ==
    /\ users = (1 :> SeedUser("alice", "pw1", "user")
                @@ 2 :> SeedUser("bob", "pw2", "admin"))
    /\ menus = (1 :> [is_active |-> TRUE] @@ 2 :> [is_active |-> TRUE])
    /\ subMenus = (1 :> [menu_id |-> 1, is_active |-> TRUE]
                   @@ 2 :> [menu_id |-> 2, is_active |-> TRUE])
    /\ reports = (1 :> SeedReport(1, 1, 1) @@ 2 :> SeedReport(2, 2, 2))
    /\ tokenBlacklist = {}
    /\ issued = {}
    /\ now = 0
    /\ ret = [op |-> "start", in |-> NULL, ok |-> TRUE, err |-> "",
              out |-> NULL]
    /\ calls = {}

----------------------------------------------------------------------------
(* Specifications *)

\* the authentication service: sessions over the seeded users
Next ==
    \/ \E username \in Usernames, password \in Passwords :
           login(username, password)
    \/ \E token \in TokenStrings : getCurrentUser(token)
    \/ \E token \in TokenStrings : logout(token)
    \/ \E id \in UserIds : toggleUserStatus(id)
    \/ TickSecond
    \/ TickDay

Spec == Init /\ [][Next]_vars

UpdateUserInputs ==
    [id : UserIds, username : {UNDEFINED}, role : {<<"admin">>},
     is_active : {UNDEFINED}]

ChangePasswordInputs ==
    [user_id : UserIds, current_password : {"pw1", "tmp"},
     new_password : {"pw2"}]

\* the authentication service next to the user administration
NextUsers ==
    \/ \E username \in Usernames, password \in Passwords :
           login(username, password)
    \/ \E token \in issued : getCurrentUser(token)
    \/ \E token \in issued : logout(token)
    \/ \E input \in UpdateUserInputs : updateUser(input)
    \/ \E id \in UserIds : toggleUserStatus(id)
    \/ \E id \in UserIds : deleteUser(id)
    \/ \E input \in ChangePasswordInputs : changePassword(input)
    \/ \E id \in UserIds : resetUserPassword(id)

SpecUsers == Init /\ [][NextUsers]_vars

\* updateReport inputs that leave the category and the assignment alone
LifecycleInputs ==
    [id : ReportIds, menu_id : {UNDEFINED}, sub_menu_id : {UNDEFINED},
     name : Opt({"n2"}), status : Opt(Statuses), priority : {UNDEFINED},
     assigned_to : {UNDEFINED}]

ReportFilterInputs ==
    [user_id : Opt(DOMAIN users), page : {UNDEFINED}, per_page : {UNDEFINED}]

\* the report lifecycle and the listings
NextReports ==
    \/ \E input \in LifecycleInputs : updateReport(input)
    \/ \E actor \in DOMAIN users, filters \in ReportFilterInputs :
           getReports(actor, filters)
    \/ \E actor \in DOMAIN users, userId \in UserIds,
          filters \in ReportFilterInputs :
           getUserReports(actor, userId, filters)
    \/ TickSecond

SpecReports == Init /\ [][NextReports]_vars

\* updateReport inputs that move a report between categories
CategoryInputs ==
    [id : ReportIds, menu_id : Opt(MenuIds), sub_menu_id : Opt(SubMenuIds),
     name : {UNDEFINED}, status : {UNDEFINED}, priority : {UNDEFINED},
     assigned_to : {UNDEFINED}]

\* reports and the menu / sub-menu taxonomy
NextCategory ==
    \/ \E input \in CategoryInputs : updateReport(input)
    \/ \E input \in [id : MenuIds, is_active : Opt(BOOLEAN)] :
           updateMenu(input)
    \/ \E input \in [id : SubMenuIds, menu_id : Opt(MenuIds),
                     is_active : Opt(BOOLEAN)] : updateSubMenu(input)

SpecCategory == Init /\ [][NextCategory]_vars

\* updateReport inputs that assign: ids with and without a row, a missing
\* menu and sub-menu, and assignees that are null, active, inactive or missing
AssignInputs ==
    [id : ReportIds, menu_id : Opt({3}), sub_menu_id : Opt({3}),
     name : {UNDEFINED}, status : {UNDEFINED}, priority : {UNDEFINED},
     assigned_to : Opt({NULL, 2, 3})]

\* report assignment next to the activation of users
NextAssign ==
    \/ \E input \in AssignInputs : updateReport(input)
    \/ \E id \in UserIds : toggleUserStatus(id)

SpecAssign == Init /\ [][NextAssign]_vars

\* updateReport inputs that supply or omit each field, for report 1
FrameInputs ==
    [id : {1}, menu_id : Opt({2}), sub_menu_id : Opt({2}),
     name : Opt({"n2"}), status : Opt({"resolved", "progress"}),
     priority : Opt({"high"}), assigned_to : Opt({2})]

\* report updates as the clock moves
NextFrame ==
    \/ \E input \in FrameInputs : updateReport(input)
    \/ TickSecond

SpecFrame == Init /\ [][NextFrame]_vars

\* reports.update inputs of an owner or an admin
OwnerInputs ==
    [id : ReportIds, menu_id : {UNDEFINED}, sub_menu_id : {UNDEFINED},
     name : Opt({"n2"}), status : Opt({"closed"}), priority : {UNDEFINED},
     assigned_to : Opt({2})]

\* report updates by the clients of the users
NextOwner ==
    \E actor \in DOMAIN users, input \in OwnerInputs :
        reportsUpdate(actor, input)

SpecOwner == Init /\ [][NextOwner]_vars

CreateReportInputs ==
    [user_id : {1}, menu_id : {1}, sub_menu_id : {1}, name : {"n2"}]

BulkStatusInputs ==
    [report_ids : {<<1>>, <<1, 2>>, <<3>>}, status : {"resolved", "progress"}]

BulkAssignInputs ==
    [report_ids : {<<1>>, <<1, 2>>, <<3>>}, assigned_to : {2}]

\* reports created, updated one by one and updated in bulk
NextBulk ==
    \/ \E input \in CreateReportInputs : createReport(input)
    \/ \E input \in LifecycleInputs : updateReport(input)
    \/ \E input \in BulkStatusInputs : bulkUpdateReportStatus(input)
    \/ \E input \in BulkAssignInputs : bulkAssignReports(input)

SpecBulk == Init /\ [][NextBulk]_vars

\* the taxonomy with its deletions, next to reports that change category
NextTaxonomy ==
    \/ \E input \in CategoryInputs : updateReport(input)
    \/ \E id \in MenuIds : deleteMenu(id)
    \/ \E id \in SubMenuIds : deleteSubMenu(id)

SpecTaxonomy == Init /\ [][NextTaxonomy]_vars

\* updateReport inputs that set a status on report 1
RaceInputs ==
    [id : {1}, menu_id : {UNDEFINED}, sub_menu_id : {UNDEFINED},
     name : {UNDEFINED}, status : {<<"resolved">>, <<"progress">>},
     priority : {UNDEFINED}, assigned_to : {UNDEFINED}]

\* updateReport calls on one report that interleave at their awaits
NextRace ==
    \/ \E input \in RaceInputs : updateReportRead(input)
    \/ \E call \in calls : updateReportValidate(call)
    \/ \E call \in calls : updateReportWrite(call)

SpecRace == Init /\ [][NextRace]_vars

\* updateReport inputs that reference a menu, a sub-menu or a user
ReferenceInputs ==
    [id : {2}, menu_id : Opt({2}), sub_menu_id : Opt({2}),
     name : {UNDEFINED}, status : {UNDEFINED}, priority : {UNDEFINED},
     assigned_to : Opt({2})]

\* an updateReport call that interleaves with the deactivation of what it
\* references
NextStale ==
    \/ \E input \in ReferenceInputs : updateReportRead(input)
    \/ \E call \in calls : updateReportValidate(call)
    \/ \E call \in calls : updateReportWrite(call)
    \/ \E id \in {2} : toggleUserStatus(id)
    \/ \E input \in [id : {2}, is_active : Opt(BOOLEAN)] : updateMenu(input)
    \/ \E input \in [id : {2}, menu_id : {UNDEFINED},
                     is_active : Opt(BOOLEAN)] : updateSubMenu(input)

SpecStale == Init /\ [][NextStale]_vars

CreateUserInputs ==
    [username : {"carol"}, password : {"pw1"}, role : {"user"}]

UserFilterInputs ==
    [role : Opt({"user"}), is_active : Opt({TRUE}), page : Opt({2}),
     per_page : Opt({1, 2})]

PagedReportFilters ==
    [user_id : Opt({1}), page : Opt({2}), per_page : Opt({1})]

\* the user administration with its listings
NextAdmin ==
    \/ \E input \in CreateUserInputs : createUser(input)
    \/ \E filters \in UserFilterInputs : getUsers(filters)
    \/ \E id \in UserIds : getUserById(id)
    \/ \E input \in UpdateUserInputs : updateUser(input)
    \/ \E id \in UserIds : toggleUserStatus(id)
    \/ \E actor \in DOMAIN users, filters \in PagedReportFilters :
           getReports(actor, filters)
    \/ \E actor \in DOMAIN users, userId \in UserIds,
          filters \in PagedReportFilters :
           getUserReports(actor, userId, filters)

SpecAdmin == Init /\ [][NextAdmin]_vars

\* the calls that store a password, next to login
NextCredentials ==
    \/ \E input \in CreateUserInputs : createUser(input)
    \/ \E username \in Usernames, password \in Passwords \cup TemporaryPasswords :
           login(username, password)
    \/ \E input \in ChangePasswordInputs : changePassword(input)
    \/ \E id \in UserIds : resetUserPassword(id)

SpecCredentials == Init /\ [][NextCredentials]_vars

\* updateReport inputs with a reference that is refused next to valid fields
FailureInputs ==
    [id : {1, 3}, menu_id : Opt({2, 3}), sub_menu_id : Opt({2, 3}),
     name : {UNDEFINED}, status : Opt({"resolved"}), priority : {UNDEFINED},
     assigned_to : Opt({2, 3})]

\* report updates next to the activation of users, over two seconds
NextFailure ==
    \/ \E input \in FailureInputs : updateReport(input)
    \/ \E id \in UserIds : toggleUserStatus(id)
    \/ TickSecond

SpecFailure == Init /\ [][NextFailure]_vars

InsertUserInputs ==
    [username : {"alice", "carol"}, password : Passwords, role : {"user"}]

\* login next to the insertion of users with hashPassword
NextHash ==
    \/ \E input \in InsertUserInputs : insertUser(input)
    \/ \E username \in Usernames, password \in Passwords :
           login(username, password)
    \/ TickSecond

SpecHash == Init /\ [][NextHash]_vars

\* the authentication service with clients that send altered tokens
NextTamper ==
    \/ \E username \in Usernames, password \in Passwords :
           login(username, password)
    \/ \E token \in issued \cup TamperedTokens : getCurrentUser(token)
    \/ \E token \in issued \cup TamperedTokens : logout(token)
    \/ TickSecond
    \/ TickDay

SpecTamper == Init /\ [][NextTamper]_vars

----------------------------------------------------------------------------
(* Properties of the authentication service, checked under Spec *)

Invalidated(token) == currentUser(token).err = "Token has been invalidated"

\* C1: once logout has returned for a token that passed verifyToken, every
\* later getCurrentUser of that token throws 'Token has been invalidated',
\* whatever logins, logouts, status changes or clock movement come between.
C1_RevokedTokenStaysInvalidated ==
    [][\A t \in TokenStrings :
         /\ (ret'.op = "logout" /\ ret'.in = t /\ verifyToken(t, now).ok)
                => Invalidated(t)'
         /\ Invalidated(t) => Invalidated(t)'
         /\ (ret'.op = "getCurrentUser" /\ ret'.in = t /\ Invalidated(t))
                => (~ret'.ok /\ ret'.err = "Token has been invalidated")]_vars

\* getCurrentUser is refused for a token that was revoked while valid and has
\* expired since, with a second token issued in between
C1_Witness ==
    /\ ret.op = "getCurrentUser"
    /\ ret.err = "Token has been invalidated"
    /\ verifyToken(ret.in, now).err = "Token expired"
    /\ Cardinality(issued) = 2

\* C6 as stated: after logout(t), for any string t, t is in the blacklist
\* and getCurrentUser(t) throws 'Token has been invalidated'.
C6_LogoutRevokesAnyString ==
    ret.op = "logout" => (ret.in \in tokenBlacklist /\ Invalidated(ret.in))

\* C6 amended: logout(t) adds t to the blacklist exactly when t passes
\* verifyToken, and then getCurrentUser(t) throws 'Token has been
\* invalidated'; when verifyToken fails the blacklist is left as it was, and
\* a t not revoked before makes getCurrentUser throw verifyToken's error.
C6_LogoutRevokesVerifiedOnly ==
    [][\A t \in TokenStrings :
         (ret'.op = "logout" /\ ret'.in = t) =>
             IF verifyToken(t, now).ok
             THEN /\ tokenBlacklist' = tokenBlacklist \cup {t}
                  /\ Invalidated(t)'
             ELSE /\ tokenBlacklist' = tokenBlacklist
                  /\ t \notin tokenBlacklist
                        => currentUser(t)'.err = verifyToken(t, now).err]_vars

\* logout of an expired token that login issued: it is not in the blacklist
C6_Witness ==
    /\ ret.op = "logout"
    /\ ret.in \in issued
    /\ verifyToken(ret.in, now).err = "Token expired"
    /\ ret.in \notin tokenBlacklist

\* C7: logout returns {success: true} for every token string in every state,
\* and a logout of a token that is already revoked or that fails verifyToken
\* leaves the blacklist unchanged.
C7_LogoutNeverFails ==
    [][ret'.op = "logout" =>
         /\ ret'.ok
         /\ ret'.out = [success |-> TRUE]
         /\ (ret'.in \in tokenBlacklist \/ ~verifyToken(ret'.in, now).ok)
                => tokenBlacklist' = tokenBlacklist]_vars

\* a second logout of a revoked token that has expired since
C7_Witness ==
    /\ ret.op = "logout"
    /\ ret.ok
    /\ ret.in \in tokenBlacklist
    /\ verifyToken(ret.in, now).err = "Token expired"

\* C8: a successful login persists last_login = now, returns a token whose
\* claims are the user's id, username and role, and getCurrentUser of that
\* token right afterwards returns the same id, username and role.
C8_LoginThenCurrentUser ==
    (ret.op = "login" /\ ret.ok) =>
        LET id == ret.out.user.id
            claims == ret.out.token[2]
            cu == currentUser(ret.out.token)
        IN  /\ users[id].last_login = now
            /\ claims.userId = id
            /\ claims.username = users[id].username
            /\ claims.role = users[id].role
            /\ cu.ok
            /\ cu.out.id = id
            /\ cu.out.username = claims.username
            /\ cu.out.role = claims.role

\* the account a login attempt names exists and the password is not its own
WrongPassword(in) ==
    \E i \in DOMAIN users :
        /\ users[i].username = in.username
        /\ ~verifyPassword(in.password, users[i].password_hash)

\* C9: login throws 'Invalid username or password' both for a username that
\* has no row and for a wrong password of an existing active user, and in
\* both cases issues no token and writes nothing.
C9_InvalidCredentials ==
    [][(/\ ret'.op = "login"
        /\ \/ UsersByUsername(ret'.in.username) = {}
           \/ \E i \in DOMAIN users : /\ users[i].username = ret'.in.username
                                      /\ users[i].is_active
                                      /\ WrongPassword(ret'.in))
       => /\ ~ret'.ok
          /\ ret'.err = "Invalid username or password"
          /\ issued' = issued
          /\ users' = users]_vars

\* login was refused for a wrong password of an existing active user
C9_Witness ==
    /\ ret.op = "login"
    /\ ret.err = "Invalid username or password"
    /\ WrongPassword(ret.in)
    /\ \E i \in DOMAIN users : /\ users[i].username = ret.in.username
                               /\ users[i].is_active

\* C10: with a password that is not the account's, login throws the same
\* error for an existing username (active or inactive) as for a username
\* that has no row.
C10_NoUsernameEnumeration ==
    (ret.op = "login" /\ WrongPassword(ret.in)) =>
        \A unknown \in Usernames :
            UsersByUsername(unknown) = {}
                => ret.err = loginCheck(unknown, ret.in.password).err

\* clock seconds around the issue and the expiry of a token
ClockSeconds ==
    (0 .. MaxSkew + 1)
        \cup ((TokenLifetime - 1) .. (TokenLifetime + MaxSkew + 1))

\* C12: the token login issues at second t for the claims c of the user
\* verifies to exactly c at every second from t up to and including
\* t + 86400 and throws 'Token expired' at every later second; so does every
\* issued token at the current second.
C12_TokenRoundTrip ==
    /\ (ret.op = "login" /\ ret.ok) =>
           LET t == ret.out.user.last_login
               c == [userId |-> ret.out.user.id,
                     username |-> ret.out.user.username,
                     role |-> ret.out.user.role]
           IN  \A s \in ClockSeconds :
                   s >= t => verifyToken(ret.out.token, s) =
                                 IF s <= t + TokenLifetime THEN Ok(c)
                                 ELSE Err("Token expired")
    /\ \A tok \in issued :
           verifyToken(tok, now) =
               IF now <= tok[2].iat + TokenLifetime
               THEN Ok([userId |-> tok[2].userId,
                        username |-> tok[2].username,
                        role |-> tok[2].role])
               ELSE Err("Token expired")

\* getCurrentUser resolved a token in the last second of its lifetime, while
\* a token issued a second earlier has expired
C12_Witness ==
    /\ ret.op = "getCurrentUser"
    /\ ret.ok
    /\ now = ret.in[2].iat + TokenLifetime
    /\ \E tok \in issued : verifyToken(tok, now).err = "Token expired"

----------------------------------------------------------------------------
(* Properties of the report lifecycle and the listings, checked under      *)
(* SpecReports                                                             *)

\* C2: after any sequence of successful updateReport calls on reports that
\* start pending with resolved_at null, resolved_at is non-null exactly when
\* the status is resolved.
C2_ResolvedAtIffResolved ==
    \A r \in DOMAIN reports :
        (reports[r].resolved_at # NULL) <=> (reports[r].status = "resolved")

\* an update that sets no status, on a report resolved in an earlier second
C2_Witness ==
    /\ ret.op = "updateReport"
    /\ ret.ok
    /\ ret.in.status = UNDEFINED
    /\ reports[ret.in.id].status = "resolved"
    /\ reports[ret.in.id].resolved_at # NULL
    /\ reports[ret.in.id].resolved_at < reports[ret.in.id].updated_at

----------------------------------------------------------------------------
(* Properties of reports and categories, checked under SpecCategory *)

\* C3: after any sequence of successful updateReport and updateSubMenu calls
\* every report's sub_menu_id names a sub-menu whose menu_id is the report's
\* menu_id.
C3_CategoryConsistent ==
    \A r \in DOMAIN reports :
        /\ reports[r].sub_menu_id \in DOMAIN subMenus
        /\ subMenus[reports[r].sub_menu_id].menu_id = reports[r].menu_id

\* the call supplied an active sub-menu whose menu is not the effective menu
\* (the supplied menu_id, else the menu_id of the report)
SubMenuOfOtherMenu(in) ==
    /\ in.sub_menu_id # UNDEFINED
    /\ ActiveSubMenu(in.sub_menu_id[1])
    /\ IF in.menu_id # UNDEFINED
       THEN subMenus[in.sub_menu_id[1]].menu_id # in.menu_id[1]
       ELSE /\ in.id \in DOMAIN reports
            /\ subMenus[in.sub_menu_id[1]].menu_id # reports[in.id].menu_id

\* C4 as stated, for a report that has a row: such an updateReport always
\* throws 'Sub menu does not belong to the selected menu'.
C4_AlwaysCategoryMismatch ==
    (/\ ret.op = "updateReport"
     /\ ret.in.id \in DOMAIN reports
     /\ SubMenuOfOtherMenu(ret.in))
        => (~ret.ok
            /\ ret.err = "Sub menu does not belong to the selected menu")

\* C4 amended: such an updateReport always fails; it throws 'Report not
\* found' when the report has no row, else 'Invalid menu selected' when the
\* supplied menu_id names no active menu, and 'Sub menu does not belong to
\* the selected menu' in every other case.
C4_MismatchAfterEarlierChecks ==
    (ret.op = "updateReport" /\ SubMenuOfOtherMenu(ret.in))
        => /\ ~ret.ok
           /\ ret.err =
                IF ret.in.id \notin DOMAIN reports THEN "Report not found"
                ELSE IF ret.in.menu_id # UNDEFINED
                        /\ ~ActiveMenu(ret.in.menu_id[1])
                     THEN "Invalid menu selected"
                ELSE "Sub menu does not belong to the selected menu"

\* the mismatch is found against the stored menu of the report
C4_Witness ==
    /\ ret.op = "updateReport"
    /\ ret.err = "Sub menu does not belong to the selected menu"
    /\ SubMenuOfOtherMenu(ret.in)
    /\ ret.in.menu_id = UNDEFINED

----------------------------------------------------------------------------
(* Properties of sessions next to the user administration, checked under   *)
(* SpecUsers                                                               *)

\* what a verified, unrevoked token resolves to, read from the users table
ResolvedByRow(token) ==
    LET id == verifyToken(token, now).out.userId
    IN  IF id \notin DOMAIN users THEN Err("User not found")
        ELSE IF ~users[id].is_active THEN Err("User account is inactive")
        ELSE Ok(WithoutPassword(id, users[id]))

\* C11: for a token that passes verifyToken and is not revoked,
\* getCurrentUser throws 'User not found' when the claimed id has no row,
\* 'User account is inactive' when the row is inactive, and returns the row
\* otherwise; this holds in every state, so the token stops resolving with the
\* step that deactivates the user and resolves again with the step that
\* reactivates the user.
C11_ResolvesByCurrentRow ==
    /\ \A t \in TokenStrings :
           (t \notin tokenBlacklist /\ verifyToken(t, now).ok)
               => currentUser(t) = ResolvedByRow(t)
    /\ (/\ ret.op = "getCurrentUser"
        /\ ret.in \notin tokenBlacklist
        /\ verifyToken(ret.in, now).ok)
           => /\ ret.ok = ResolvedByRow(ret.in).ok
              /\ ret.err = ResolvedByRow(ret.in).err
              /\ ret.out = ResolvedByRow(ret.in).out

\* getCurrentUser found no row for the token of a deleted user, while the
\* token of another user does not resolve because that user is inactive
C11_Witness ==
    /\ ret.op = "getCurrentUser"
    /\ ret.in \in issued
    /\ ret.err = "User not found"
    /\ \E t \in issued : currentUser(t).err = "User account is inactive"

----------------------------------------------------------------------------
(* Properties of report assignment, checked under SpecAssign *)

\* the error of the checks updateReport makes before it looks at assigned_to,
\* or "" when they all pass
EarlierRefusal(in) ==
    IF in.id \notin DOMAIN reports THEN "Report not found"
    ELSE IF in.menu_id # UNDEFINED /\ ~ActiveMenu(in.menu_id[1])
         THEN "Invalid menu selected"
    ELSE IF in.sub_menu_id # UNDEFINED /\ ~ActiveSubMenu(in.sub_menu_id[1])
         THEN "Invalid sub menu selected"
    ELSE IF SubMenuOfOtherMenu(in)
         THEN "Sub menu does not belong to the selected menu"
    ELSE ""

\* C14 as stated, for a report that has a row: with a non-null assigned_to
\* updateReport succeeds only if that id is an active user and otherwise
\* throws 'Invalid assigned user'; assigned_to null is never refused as an
\* assignee and, when the update succeeds, clears the assignment.
C14_AssigneeRule ==
    (/\ ret.op = "updateReport"
     /\ ret.in.id \in DOMAIN reports
     /\ ret.in.assigned_to # UNDEFINED)
    => IF ret.in.assigned_to[1] # NULL
       THEN IF ActiveUser(ret.in.assigned_to[1]) THEN TRUE
            ELSE ~ret.ok /\ ret.err = "Invalid assigned user"
       ELSE /\ ret.err # "Invalid assigned user"
            /\ ret.ok => reports[ret.in.id].assigned_to = NULL

\* C14 amended: when an earlier check of updateReport fails, the call throws
\* that check's error and no assignment changes; otherwise a non-null
\* assigned_to succeeds exactly when it names an active user and throws
\* 'Invalid assigned user' when it does not, assigned_to null succeeds and
\* clears the assignment, and an omitted assigned_to leaves it as it was.
C14_AssigneeRuleAfterEarlierChecks ==
    [][\A input \in AssignInputs :
         (ret'.op = "updateReport" /\ ret'.in = input) =>
             IF EarlierRefusal(input) # ""
             THEN /\ ~ret'.ok
                  /\ ret'.err = EarlierRefusal(input)
                  /\ reports' = reports
             ELSE IF input.assigned_to = UNDEFINED
             THEN /\ ret'.ok
                  /\ reports'[input.id].assigned_to
                         = reports[input.id].assigned_to
             ELSE IF input.assigned_to[1] = NULL
             THEN /\ ret'.ok
                  /\ reports'[input.id].assigned_to = NULL
             ELSE IF ActiveUser(input.assigned_to[1])
             THEN /\ ret'.ok
                  /\ reports'[input.id].assigned_to = input.assigned_to[1]
             ELSE /\ ~ret'.ok
                  /\ ret'.err = "Invalid assigned user"
                  /\ reports' = reports]_vars

\* a report assigned to a user is refused the same assignee once that user
\* has been deactivated
C14_Witness ==
    /\ ret.op = "updateReport"
    /\ ret.err = "Invalid assigned user"
    /\ ret.in.assigned_to[1] \in DOMAIN users
    /\ ~users[ret.in.assigned_to[1]].is_active
    /\ reports[ret.in.id].assigned_to = ret.in.assigned_to[1]

\* C15: updateReport on an id that has no row throws 'Report not found',
\* whatever menu_id, sub_menu_id or assigned_to it supplies, and leaves the
\* reports table as it was.
C15_ReportNotFoundFirst ==
    [][\A input \in AssignInputs :
         (/\ ret'.op = "updateReport"
          /\ ret'.in = input
          /\ input.id \notin DOMAIN reports)
             => /\ ~ret'.ok
                /\ ret'.err = "Report not found"
                /\ reports' = reports]_vars

\* the refused call also named a missing menu, sub-menu and assignee
C15_Witness ==
    /\ ret.op = "updateReport"
    /\ ret.in.id \notin DOMAIN reports
    /\ ret.err = "Report not found"
    /\ ret.in.menu_id # UNDEFINED /\ ~ActiveMenu(ret.in.menu_id[1])
    /\ ret.in.sub_menu_id # UNDEFINED /\ ~ActiveSubMenu(ret.in.sub_menu_id[1])
    /\ ret.in.assigned_to # UNDEFINED /\ ~ActiveUser(ret.in.assigned_to[1])

----------------------------------------------------------------------------
(* Properties of the fields an update writes, checked under SpecFrame *)

\* the value a column holds after an update that supplied or omitted it
Written(supplied, old) == IF supplied # UNDEFINED THEN supplied[1] ELSE old

\* C16: a successful updateReport keeps the set of rows, every other row,
\* and the user_id and created_at of its row; each of menu_id, sub_menu_id,
\* name, status, priority and assigned_to takes the supplied value or keeps
\* the stored one; updated_at is stamped; resolved_at is untouched unless a
\* status is supplied.
C16_OnlySuppliedFieldsChange ==
    [][\A input \in FrameInputs :
         (ret'.op = "updateReport" /\ ret'.in = input /\ ret'.ok) =>
             LET old == reports[input.id]
             IN  /\ DOMAIN reports' = DOMAIN reports
                 /\ \A r \in DOMAIN reports :
                        r # input.id => reports'[r] = reports[r]
                 /\ ret'.out.id = input.id
                 /\ reports'[input.id].user_id = old.user_id
                 /\ reports'[input.id].created_at = old.created_at
                 /\ reports'[input.id].menu_id
                        = Written(input.menu_id, old.menu_id)
                 /\ reports'[input.id].sub_menu_id
                        = Written(input.sub_menu_id, old.sub_menu_id)
                 /\ reports'[input.id].name = Written(input.name, old.name)
                 /\ reports'[input.id].status
                        = Written(input.status, old.status)
                 /\ reports'[input.id].priority
                        = Written(input.priority, old.priority)
                 /\ reports'[input.id].assigned_to
                        = Written(input.assigned_to, old.assigned_to)
                 /\ reports'[input.id].updated_at = now
                 /\ input.status = UNDEFINED
                        => reports'[input.id].resolved_at = old.resolved_at]_vars

\* an update that supplies only a name, on a report that was resolved,
\* prioritised and assigned in an earlier second
C16_Witness ==
    /\ ret.op = "updateReport"
    /\ ret.ok
    /\ ret.in.name # UNDEFINED
    /\ ret.in.menu_id = UNDEFINED /\ ret.in.sub_menu_id = UNDEFINED
    /\ ret.in.status = UNDEFINED /\ ret.in.priority = UNDEFINED
    /\ ret.in.assigned_to = UNDEFINED
    /\ reports[ret.in.id].status = "resolved"
    /\ reports[ret.in.id].priority = "high"
    /\ reports[ret.in.id].assigned_to = 2
    /\ reports[ret.in.id].resolved_at < reports[ret.in.id].updated_at

----------------------------------------------------------------------------
(* Properties of who may update a report, checked under SpecOwner *)

\* C17: an update made for a non-admin user leaves a closed report of that
\* user unmodified, and never changes the assigned_to of the report.
C17_OwnerLimits ==
    [][\A actor \in UserIds, input \in OwnerInputs :
         (/\ ret'.op = "reports.update"
          /\ ret'.in = [actor |-> actor, input |-> input]
          /\ actor \in DOMAIN users
          /\ users[actor].role # "admin"
          /\ input.id \in DOMAIN reports)
             => /\ (/\ reports[input.id].user_id = actor
                    /\ reports[input.id].status = "closed")
                       => reports'[input.id] = reports[input.id]
                /\ reports'[input.id].assigned_to
                       = reports[input.id].assigned_to]_vars

----------------------------------------------------------------------------
(* Properties of report creation and bulk updates, checked under SpecBulk *)

\* C18: the id createReport answers with holds the report just created:
\* the caller's user_id and name, status pending, priority medium,
\* assigned_to null and resolved_at null; after an update of a report to
\* status resolved its resolved_at is non-null, and after an update to
\* another status it is null.
C18_CreateThenResolve ==
    /\ ret.op = "createReport" =>
           /\ ret.out.id \in DOMAIN reports
           /\ reports[ret.out.id].user_id = ret.in.user_id
           /\ reports[ret.out.id].name = ret.in.name
           /\ reports[ret.out.id].status = "pending"
           /\ reports[ret.out.id].priority = "medium"
           /\ reports[ret.out.id].assigned_to = NULL
           /\ reports[ret.out.id].resolved_at = NULL
    /\ (ret.op = "updateReport" /\ ret.ok /\ ret.in.status # UNDEFINED) =>
           (reports[ret.in.id].resolved_at # NULL
                <=> ret.in.status[1] = "resolved")

\* the ids of a bulk call that have a row
BulkTargets(report_ids) ==
    {report_ids[i] : i \in 1 .. Len(report_ids)} \cap DOMAIN reports

\* C19: after bulkUpdateReportStatus every listed report has the given
\* status (with resolved_at following the status rule), after
\* bulkAssignReports every listed report has the given assignee, and the
\* count returned is the number of reports changed, so at most the number of
\* listed ids that have a row.
C19_BulkCounts ==
    /\ ret.op = "bulkUpdateReportStatus" =>
           /\ \A r \in BulkTargets(ret.in.report_ids) :
                  /\ reports[r].status = ret.in.status
                  /\ (reports[r].resolved_at # NULL
                          <=> ret.in.status = "resolved")
           /\ ret.out.updated <= Cardinality(BulkTargets(ret.in.report_ids))
    /\ ret.op = "bulkAssignReports" =>
           /\ \A r \in BulkTargets(ret.in.report_ids) :
                  reports[r].assigned_to = ret.in.assigned_to
           /\ ret.out.assigned <= Cardinality(BulkTargets(ret.in.report_ids))

----------------------------------------------------------------------------
(* Properties of menu deletion, checked under SpecTaxonomy *)

\* C20: deleteMenu of a menu that a report references through menu_id, and
\* deleteSubMenu of a sub-menu that a report references through sub_menu_id,
\* throw the 'Cannot delete ... that has associated reports' error and leave
\* menus, sub-menus and reports as they were.
C20_DeleteRefusedWhenReferenced ==
    [][/\ \A id \in MenuIds :
            (/\ ret'.op = "deleteMenu"
             /\ ret'.in = id
             /\ ReportsOfMenu(id) # {})
                => /\ ~ret'.ok
                   /\ ret'.err
                        = "Cannot delete menu that has associated reports"
                   /\ UNCHANGED <<menus, subMenus, reports>>
       /\ \A id \in SubMenuIds :
            (/\ ret'.op = "deleteSubMenu"
             /\ ret'.in = id
             /\ ReportsOfSubMenu(id) # {})
                => /\ ~ret'.ok
                   /\ ret'.err
                        = "Cannot delete sub-menu that has associated reports"
                   /\ UNCHANGED <<menus, subMenus, reports>>]_vars

\* deleteMenu was refused for a menu that holds reports, after another menu
\* that had lost its reports was deleted together with its sub-menu
C20_Witness ==
    /\ ret.op = "deleteMenu"
    /\ ret.err = "Cannot delete menu that has associated reports"
    /\ ReportsOfMenu(ret.in) # {}
    /\ Cardinality(DOMAIN menus) = 1
    /\ Cardinality(DOMAIN subMenus) = 1

----------------------------------------------------------------------------
(* Properties of interleaved updateReport calls, checked under SpecRace    *)
(* and SpecStale                                                           *)

\* C25: whenever no updateReport call is in flight, whatever way the calls
\* before interleaved, every report has resolved_at non-null exactly when its
\* status is resolved.
C25_ResolvedAtIffResolvedInterleaved ==
    calls = {} =>
        \A r \in DOMAIN reports :
            (reports[r].status = "resolved") <=> (reports[r].resolved_at # NULL)

\* C26: when updateReport has written a non-null assigned_to, a menu_id or a
\* sub_menu_id, the user, menu or sub-menu it names is active at the moment
\* of the write.
C26_ReferencesActiveAtWrite ==
    (ret.op = "updateReport" /\ ret.ok) =>
        /\ (ret.in.assigned_to # UNDEFINED /\ ret.in.assigned_to[1] # NULL)
               => ActiveUser(ret.in.assigned_to[1])
        /\ ret.in.menu_id # UNDEFINED => ActiveMenu(ret.in.menu_id[1])
        /\ ret.in.sub_menu_id # UNDEFINED
               => ActiveSubMenu(ret.in.sub_menu_id[1])

----------------------------------------------------------------------------
(* Properties of the user administration and the listings, checked under   *)
(* SpecAdmin and SpecCredentials                                           *)

\* the number of rows a listing call has to count
MatchingRows ==
    IF ret.op = "getUsers"
    THEN Cardinality({i \in DOMAIN users :
                        /\ ret.in.role # UNDEFINED
                               => users[i].role = ret.in.role[1]
                        /\ ret.in.is_active # UNDEFINED
                               => users[i].is_active = ret.in.is_active[1]})
    ELSE IF ret.op = "getReports"
    THEN Cardinality({r \in DOMAIN reports :
                        ret.in.filters.user_id # UNDEFINED
                            => reports[r].user_id = ret.in.filters.user_id[1]})
    ELSE Cardinality({r \in DOMAIN reports :
                        /\ reports[r].user_id = ret.in.userId
                        /\ ret.in.filters.user_id # UNDEFINED
                               => reports[r].user_id
                                      = ret.in.filters.user_id[1]})

\* C21: getReports, getUserReports and getUsers answer with page 1 and
\* per_page 10 when these are not supplied, with at most per_page rows, with
\* total the number of rows that match the filters and with
\* total_pages = ceil(total / per_page).
C21_Pagination ==
    ret.op \in {"getUsers", "getReports", "getUserReports"} =>
        LET filters == IF ret.op = "getUsers" THEN ret.in ELSE ret.in.filters
            p == ret.out.pagination
        IN  /\ p.page = IF filters.page # UNDEFINED THEN filters.page[1] ELSE 1
            /\ p.per_page = IF filters.per_page # UNDEFINED
                            THEN filters.per_page[1] ELSE 10
            /\ p.per_page <= 100
            /\ Len(ret.out.data) <= p.per_page
            /\ p.total = MatchingRows
            /\ p.total_pages * p.per_page >= p.total
            /\ (p.total_pages - 1) * p.per_page < p.total

\* the user records a call has returned
ReturnedUsers ==
    IF ~ret.ok THEN {}
    ELSE IF ret.op = "login" THEN {ret.out.user}
    ELSE IF ret.op \in {"getCurrentUser", "createUser", "updateUser",
                        "toggleUserStatus"}
         THEN {ret.out}
    ELSE IF ret.op = "getUserById" /\ ret.in \in DOMAIN users THEN {ret.out}
    ELSE IF ret.op = "getUsers"
         THEN {ret.out.data[i] : i \in 1 .. Len(ret.out.data)}
    ELSE {}

\* C22: no user record returned by login, getCurrentUser, getUsers,
\* getUserById, createUser, updateUser or toggleUserStatus has a
\* password_hash field.
C22_NoPasswordHashReturned ==
    \A u \in ReturnedUsers : "password_hash" \notin DOMAIN u

\* the username of the user a password call was made for
UsernameOf(id) == users[id].username

\* C30: right after createUser(username, password) login accepts that
\* username and password; right after changePassword on an active user login
\* accepts the new password and refuses the old one; right after
\* resetUserPassword on an active user login accepts the temporary password.
C30_CreatedUserCanLogin ==
    /\ (ret.op = "createUser" /\ ret.ok)
           => loginCheck(ret.in.username, ret.in.password).ok
    /\ (/\ ret.op = "changePassword"
        /\ ret.ok
        /\ users[ret.in.user_id].is_active)
           => /\ loginCheck(UsernameOf(ret.in.user_id),
                            ret.in.new_password).ok
              /\ ~loginCheck(UsernameOf(ret.in.user_id),
                             ret.in.current_password).ok
    /\ (/\ ret.op = "resetUserPassword"
        /\ ret.ok
        /\ users[ret.in].is_active)
           => loginCheck(UsernameOf(ret.in), ret.out.temporaryPassword).ok

----------------------------------------------------------------------------
(* Properties of the token codec and the sessions *)

\* C23: an issued token with one character of its payload segment or of its
\* signature segment changed fails verifyToken with 'Invalid token signature'
\* or 'Invalid token format', at every time, and getCurrentUser of it throws
\* that error.
C23_TamperDetected ==
    /\ \A token \in TamperedTokens :
           /\ ~verifyToken(token, now).ok
           /\ verifyToken(token, now).err
                  \in {"Invalid token signature", "Invalid token format"}
    /\ (ret.op = "getCurrentUser" /\ ret.in \in TamperedTokens)
           => /\ ~ret.ok
              /\ ret.err \in {"Invalid token signature", "Invalid token format"}

\* getCurrentUser refuses a token whose payload was altered to a later exp,
\* at a time when the issued token has expired
C23_Witness ==
    /\ ret.op = "getCurrentUser"
    /\ ret.in \in TamperedTokens
    /\ Len(ret.in) = 3
    /\ ret.in[2].exp > now
    /\ ret.err = "Invalid token signature"
    /\ \E token \in issued : verifyToken(token, now).err = "Token expired"

\* C27: every successful login call returns a token of its own, one that no
\* earlier login call has returned, and logout(t) leaves the answer of
\* getCurrentUser for every other issued token as it was.
C27_LogoutEndsOneSession ==
    [][/\ (ret'.op = "login" /\ ret'.ok) => ret'.out.token \notin issued
       /\ \A t \in TokenStrings :
              (ret'.op = "logout" /\ ret'.in = t)
                  => \A u \in issued \ {t} :
                         currentUser(u)'.err = currentUser(u).err]_vars

\* C28: getCurrentUser of a token in the blacklist throws 'Token has been
\* invalidated', also when verifyToken of that token fails with 'Token
\* expired'.
C28_RevocationBeforeExpiry ==
    (ret.op = "getCurrentUser" /\ ret.in \in tokenBlacklist)
        => (~ret.ok /\ ret.err = "Token has been invalidated")

\* getCurrentUser of the only issued token, revoked while valid and expired
\* since
C28_Witness ==
    /\ ret.op = "getCurrentUser"
    /\ ret.in \in tokenBlacklist
    /\ issued = {ret.in}
    /\ verifyToken(ret.in, now).err = "Token expired"
    /\ ret.err = "Token has been invalidated"

----------------------------------------------------------------------------
(* Properties of refused report updates, checked under SpecFailure *)

UpdateRefusals ==
    {"Report not found", "Invalid menu selected", "Invalid sub menu selected",
     "Sub menu does not belong to the selected menu", "Invalid assigned user"}

\* C29: an updateReport call that fails with 'Report not found', 'Invalid
\* menu selected', 'Invalid sub menu selected', 'Sub menu does not belong to
\* the selected menu' or 'Invalid assigned user' leaves every stored report
\* as it was, updated_at and resolved_at included, whatever other fields the
\* call supplies.
C29_RefusedUpdateWritesNothing ==
    [][(ret'.op = "updateReport" /\ ~ret'.ok)
           => /\ ret'.err \in UpdateRefusals
              /\ reports' = reports]_vars

\* a call refused for its assignee in a later second than the last write,
\* that also supplies a valid menu, a valid sub-menu and a status
C29_Witness ==
    /\ ret.op = "updateReport"
    /\ ret.err = "Invalid assigned user"
    /\ ret.in.menu_id = <<2>>
    /\ ret.in.sub_menu_id = <<2>>
    /\ ret.in.status = <<"resolved">>
    /\ reports[ret.in.id].updated_at < now
    /\ reports[ret.in.id].status = "pending"
    /\ reports[ret.in.id].resolved_at = NULL

----------------------------------------------------------------------------
(* Properties of the password hashing of auth.ts, checked under SpecHash *)

\* C24: verifyPassword(p, hashPassword(p)) is true, and two calls of
\* hashPassword(p) return two different strings that both verify p.
C24_HashRoundTrip ==
    /\ (ret.op = "insertUser" /\ ret.ok)
           => verifyPassword(ret.in.password, ret.out.password_hash)
    /\ \A i, j \in DOMAIN users : \A password \in Passwords :
           (/\ i # j
            /\ verifyPassword(password, users[i].password_hash)
            /\ verifyPassword(password, users[j].password_hash))
               => users[i].password_hash # users[j].password_hash

\* a row inserted with the hash of a password that another row has as well
C24_Witness ==
    /\ ret.op = "insertUser"
    /\ ret.ok
    /\ \E i \in DOMAIN users :
           /\ i # ret.out.id
           /\ verifyPassword(ret.in.password, users[i].password_hash)
           /\ verifyPassword(ret.in.password, users[ret.out.id].password_hash)
           /\ users[i].password_hash # users[ret.out.id].password_hash

====
